---- MODULE Spec2Model ----
(***************************************************************************)
(* Model of the two scripts of ucanme/canview:                             *)
(*   src/parse_errors.py          the diagnostics summarizer               *)
(*   src/assets/convert_icons.py  the icon generator                       *)
(* Spec      is the summarizer (one action per loop iteration).            *)
(* IconSpec  is the icon generator (one action per statement group).       *)
(***************************************************************************)
EXTENDS Integers, Sequences, FiniteSets, TLC

VARIABLES
  \* ---- parse_errors.py ----
  fileExists,   \* check_errors.json is present in the working directory
  lines,        \* the text lines of the file, as parse results (see LineKinds)
  badAt,        \* 0, or the index of the first line whose bytes are not UTF-16
  pos,          \* index of the next line the "for line in f" loop will read
  out,          \* standard output: the sequence of printed lines
  src,          \* history: src[k] is the index of the input line that printed out[k]
  spc,          \* position of the script: "open", "scan", "done", "crashed"
  exitS,        \* process exit status of parse_errors.py (-1 while running)
  \* ---- convert_icons.py ----
  pillow,       \* "from PIL import Image, ImageDraw" succeeds
  pngDir,       \* what is at ./png : "absent", "dir" or "file"
  icoDir,       \* what is at ./ico : "absent", "dir" or "file"
  png,          \* png[s]: width and height of the image in png/icon_<s>.png (0: no file)
  pngBlocked,   \* 0, or the size whose png path cannot be written
  icoBlocked,   \* ico/canview.ico cannot be written
  faultAt,      \* 0; 16: drawing the 16x16 image raises; s: Image.open of size s raises
  ico,          \* the frames of ico/canview.ico (empty set: no file)
  ipc,          \* position inside main()
  sizeIdx,      \* index into sizes / the ico size list of the running loop
  canvas,       \* the image being generated: width, height, circles drawn
  written,      \* history: the sizes whose PNG this run has saved
  images,       \* the list "images" of the bundle step
  iout,         \* what main printed, as tags
  exitI         \* process exit status of convert_icons.py (-1 while running)

sumVars == <<fileExists, lines, badAt, pos, out, src, spc, exitS>>
iconVars == <<pillow, pngDir, icoDir, png, pngBlocked, icoBlocked, faultAt,
              ico, ipc, sizeIdx, canvas, written, images, iout, exitI>>
vars == <<fileExists, lines, badAt, pos, out, src, spc, exitS,
          pillow, pngDir, icoDir, png, pngBlocked, icoBlocked, faultAt,
          ico, ipc, sizeIdx, canvas, written, images, iout, exitI>>

-----------------------------------------------------------------------------
(* Bounds *)
MaxLines == 2
MaxSpans == 2

-----------------------------------------------------------------------------
(* JSON values as the script sees them.  A dict field is                   *)
(*   [k |-> "absent"]            key not in the dict (dict.get gives None) *)
(*   [k |-> "null"]              JSON null                                 *)
(*   [k |-> "str", s |-> ..]     a string or number, by its printed form   *)
(*   [k |-> "obj", ...]          an object                                 *)
(*   [k |-> "list", items |-> ..] an array                                 *)
Absent == [k |-> "absent"]
Null == [k |-> "null"]
S(x) == [k |-> "str", s |-> x]

\* str() of the result of dict.get(key): None prints as "None"
PyStr(v) == IF v.k \in {"absent", "null"} THEN "None" ELSE v.s

\* str() of span.get('text', []): the default [] prints as "[]"
PyStrText(v) == IF v.k = "absent" THEN "[]" ELSE PyStr(v)

SeqsUpTo(T, n) == UNION {[1..m -> T] : m \in 0..n}

SpanObj == [k |-> "obj", file_name |-> S("a.rs"), line_start |-> S("3"),
            column_start |-> Null, text |-> Absent]
SpanItems == {SpanObj, S("7")}

SpansKinds == {Absent, Null} \cup
              {[k |-> "list", items |-> it] : it \in SeqsUpTo(SpanItems, MaxSpans)}

CodeKinds == {Absent, Null, [k |-> "obj", code |-> S("E0308")]}

ErrorMessages == {[k |-> "obj", level |-> S("error"), message |-> S("mismatched types"),
                   code |-> c, spans |-> sp] : c \in CodeKinds, sp \in SpansKinds}
OtherMessages == {Absent, S("text"),
                  [k |-> "obj", level |-> S("warning"), message |-> S("unused"),
                   code |-> Absent, spans |-> [k |-> "list", items |-> <<SpanObj>>]],
                  [k |-> "obj", level |-> Absent, message |-> Absent,
                   code |-> Absent, spans |-> Absent]}

\* What one text line of the file is to json.loads
LineKinds ==
  {[k |-> "invalid"], [k |-> "list"]} \cup
  {[k |-> "obj", reason |-> r, message |-> m] :
      r \in {S("compiler-message")}, m \in ErrorMessages \cup OtherMessages} \cup
  {[k |-> "obj", reason |-> r, message |-> m] :
      r \in {S("build-finished"), Absent},
      m \in {[k |-> "obj", level |-> S("error"), message |-> S("mismatched types"),
              code |-> Absent, spans |-> Absent]}}

-----------------------------------------------------------------------------
(* parse_errors.py, lines 5-17: the body of the loop for one line.         *)
(* An exception anywhere in the try block ends the handling of the line;   *)
(* what was printed before it stays printed.                               *)

ErrorLine(msg) == <<"Error", PyStr(msg.message)>>
CodeLine(msg) == <<"Code", IF msg.code.k = "absent" THEN "None" ELSE PyStr(msg.code.code)>>
FileLine(span) == <<"File", PyStr(span.file_name), PyStr(span.line_start),
                    PyStr(span.column_start)>>
TextLine(span) == <<"Text", PyStrText(span.text)>>

\* json.loads(line) returns (does not raise)
ParsesAsJson(line) == line.k # "invalid"

\* data.get('reason') == 'compiler-message'
ReasonMatches(data) == data.reason = S("compiler-message")

LevelAny(msg) == TRUE

\* msg.get('level') == 'error'
LevelMatches(msg) == msg.level = S("error")

\* for span in msg.get('spans', []): two prints per span; a span that is not
\* a dict raises on span.get and ends the loop
RECURSIVE PrintSpans(_)
PrintSpans(items) ==
  IF items = <<>> THEN <<>>
  ELSE IF Head(items).k # "obj" THEN <<>>
  ELSE <<FileLine(Head(items)), TextLine(Head(items))>> \o PrintSpans(Tail(items))

\* lines 13-15
SpansOutput(msg) ==
  CASE msg.spans.k = "absent" -> <<>>
    [] msg.spans.k = "list" -> PrintSpans(msg.spans.items)
    [] OTHER -> <<>>

\* lines 11-15: the prints of one error record
BlockOutput(msg) ==
  IF msg.code.k \in {"absent", "obj"}
  THEN <<ErrorLine(msg), CodeLine(msg)>> \o SpansOutput(msg)
  ELSE <<ErrorLine(msg)>>

\* lines 6-16: some statement of the try block raises, so that the except
\* clause runs
Raises(line) ==
  \/ ~ParsesAsJson(line)
  \/ line.k # "obj"
  \/ /\ ReasonMatches(line)
     /\ \/ line.message.k # "obj"
        \/ /\ LevelMatches(line.message)
           /\ \/ line.message.code.k \notin {"absent", "obj"}
              \/ line.message.spans.k \notin {"absent", "list"}
              \/ /\ line.message.spans.k = "list"
                 /\ \E j \in DOMAIN line.message.spans.items :
                       line.message.spans.items[j].k # "obj"

\* lines 6-17
LineOutput(line) ==
  IF ~ParsesAsJson(line) THEN <<>>
  ELSE IF line.k # "obj" THEN <<>>
  ELSE IF ~ReasonMatches(line) THEN <<>>
  ELSE IF line.message.k # "obj" THEN <<>>
  ELSE IF ~LevelMatches(line.message) THEN <<>>
  ELSE BlockOutput(line.message)

-----------------------------------------------------------------------------
(* convert_icons.py: constants and generate_simple_icon *)

\* main, line 107
Sizes == <<512, 256, 128, 64, 48, 32>>
SizeSet == {Sizes[i] : i \in DOMAIN Sizes}

\* main, line 131
IcoSizes == <<32, 48, 64, 128, 256>>

\* line 125: the side of the separately drawn small image
Small == 16

\* line 51
NumNodes == 5

NoFile == [w |-> 0, h |-> 0, nodes |-> <<>>]

Max(a, b) == IF a >= b THEN a ELSE b

NewCanvasHalfHeight(size) == [w |-> size, h |-> size \div 2, nodes |-> <<>>]

\* line 39: Image.new('RGBA', (size, size), ...)
NewCanvas(size) == [w |-> size, h |-> size, nodes |-> <<>>]

\* line 43
Padding(size) == size \div 8
\* line 44
ContentSize(size) == size - 2 * Padding(size)
\* line 47
CenterY(size) == size \div 2
\* line 52
NodeSpacing(size) == ContentSize(size) \div (NumNodes + 1)
NodeRadiusNoFloor(size) == size \div 32

\* line 53
NodeRadius(size) == Max(2, size \div 32)

\* line 56
NodeX(size, i) == Padding(size) + NodeSpacing(size) * (i + 1)

\* lines 60-68: the radius; int(node_radius * 1.5) truncates
Radius(size, i) == IF i = 2 THEN (3 * NodeRadius(size)) \div 2 ELSE NodeRadius(size)

\* lines 60-68: the colour
NodeColor(i) == IF i = 2 THEN "node3" ELSE IF i \in {1, 3} THEN "node2" ELSE "node1"

\* lines 55-74: the circle drawn by iteration i of the loop
Node(size, i) == [x |-> NodeX(size, i), y |-> CenterY(size), r |-> Radius(size, i),
                  color |-> NodeColor(i)]

\* lines 139-143: images[0].save(ico_path, format='ICO', sizes=[...]).  Only
\* images[0] is handed to the encoder (there is no append_images), the other
\* images contribute their (width, height) to sizes.  The ICO encoder drops
\* every requested size larger than the saved image or larger than 256 and
\* renders each remaining size from the saved image.
IcoFrames(imgs) ==
  {[w |-> imgs[j].w, h |-> imgs[j].h, from |-> imgs[1].from] : j \in
     {j \in DOMAIN imgs : /\ imgs[j].w <= imgs[1].w /\ imgs[j].h <= imgs[1].h
                          /\ imgs[j].w <= 256 /\ imgs[j].h <= 256}}

-----------------------------------------------------------------------------
(* parse_errors.py as a state machine *)

\* The icon generator before main() is called, in an empty working directory
IconIdle ==
  /\ pillow = TRUE
  /\ pngDir = "absent"
  /\ icoDir = "absent"
  /\ png = [s \in SizeSet |-> NoFile]
  /\ pngBlocked = 0
  /\ icoBlocked = FALSE
  /\ faultAt = 0
  /\ ico = {}
  /\ ipc = "start"
  /\ sizeIdx = 1
  /\ canvas = NoFile
  /\ written = {}
  /\ images = <<>>
  /\ iout = <<>>
  /\ exitI = -1

\* The file is absent, or holds up to MaxLines lines.  What follows the first
\* undecodable line is never read, so such a line is the last one modelled.
Init ==
  /\ \/ /\ fileExists = FALSE
        /\ lines = <<>>
        /\ badAt = 0
     \/ /\ fileExists = TRUE
        /\ lines \in SeqsUpTo(LineKinds, MaxLines)
        /\ badAt \in {0, Len(lines)}
  /\ pos = 1
  /\ out = <<>>
  /\ src = <<>>
  /\ spc = "open"
  /\ exitS = -1
  /\ IconIdle

\* line 4: open('check_errors.json', 'r', encoding='utf-16') succeeds
Open ==
  /\ spc = "open"
  /\ fileExists
  /\ spc' = "scan"
  /\ UNCHANGED <<fileExists, lines, badAt, pos, out, src, exitS>>
  /\ UNCHANGED iconVars

\* line 4: the file is absent; FileNotFoundError is raised outside the try
\* block and ends the process with a traceback
OpenFail ==
  /\ spc = "open"
  /\ ~fileExists
  /\ spc' = "crashed"
  /\ exitS' = 1
  /\ UNCHANGED <<fileExists, lines, badAt, pos, out, src>>
  /\ UNCHANGED iconVars

\* line 5: the iterator meets bytes that are not UTF-16; UnicodeDecodeError
\* is raised by "for line in f", outside the try block
DecodeFail ==
  /\ spc = "scan"
  /\ pos <= Len(lines)
  /\ pos = badAt
  /\ spc' = "crashed"
  /\ exitS' = 1
  /\ UNCHANGED <<fileExists, lines, badAt, pos, out, src>>
  /\ UNCHANGED iconVars

\* (mutation) the except clause re-raises instead of passing
ScanLineReraise ==
  /\ spc = "scan"
  /\ pos <= Len(lines)
  /\ pos # badAt
  /\ out' = out \o LineOutput(lines[pos])
  /\ src' = src \o [j \in 1..Len(LineOutput(lines[pos])) |-> pos]
  /\ IF Raises(lines[pos])
     THEN pos' = pos /\ spc' = "crashed" /\ exitS' = 1
     ELSE pos' = pos + 1 /\ UNCHANGED <<spc, exitS>>
  /\ UNCHANGED <<fileExists, lines, badAt>>
  /\ UNCHANGED iconVars

\* lines 5-17: one iteration of the loop
ScanLine ==
  /\ spc = "scan"
  /\ pos <= Len(lines)
  /\ pos # badAt
  /\ out' = out \o LineOutput(lines[pos])
  /\ src' = src \o [j \in 1..Len(LineOutput(lines[pos])) |-> pos]
  /\ pos' = pos + 1
  /\ UNCHANGED <<fileExists, lines, badAt, spc, exitS>>
  /\ UNCHANGED iconVars

\* (mutation) the script ends with sys.exit(1)
FinishNonZero ==
  /\ spc = "scan"
  /\ pos > Len(lines)
  /\ spc' = "done"
  /\ exitS' = 1
  /\ UNCHANGED <<fileExists, lines, badAt, pos, out, src>>
  /\ UNCHANGED iconVars

\* end of file: the with block closes the file and the script ends
Finish ==
  /\ spc = "scan"
  /\ pos > Len(lines)
  /\ spc' = "done"
  /\ exitS' = 0
  /\ UNCHANGED <<fileExists, lines, badAt, pos, out, src>>
  /\ UNCHANGED iconVars

Next == Open \/ OpenFail \/ DecodeFail \/ ScanLine \/ Finish

Spec == Init /\ [][Next]_vars

-----------------------------------------------------------------------------
(* Properties of the diagnostics summarizer *)

\* what input line i printed, in print order
RECURSIVE Pick(_, _)
Pick(k, i) ==
  IF k > Len(out) THEN <<>>
  ELSE (IF src[k] = i THEN <<out[k]>> ELSE <<>>) \o Pick(k + 1, i)
OutputOf(i) == Pick(1, i)

Scanned == 1..(pos - 1)

\* a record with reason == "compiler-message" and message.level == "error"
IsErrorRecord(line) ==
  /\ line.k = "obj"
  /\ line.reason.k = "str" /\ line.reason.s = "compiler-message"
  /\ line.message.k = "obj"
  /\ line.message.level.k = "str" /\ line.message.level.s = "error"

\* the record's spans are a list of span objects (or the key is missing)
SpansWellFormed(msg) ==
  \/ msg.spans.k = "absent"
  \/ /\ msg.spans.k = "list"
     /\ \A j \in DOMAIN msg.spans.items : msg.spans.items[j].k = "obj"

FieldText(v) == IF v.k = "str" THEN v.s ELSE "None"

RECURSIVE SpanBlocks(_)
SpanBlocks(items) ==
  IF items = <<>> THEN <<>>
  ELSE LET sp == Head(items) IN
       << <<"File", FieldText(sp.file_name), FieldText(sp.line_start),
            FieldText(sp.column_start)>>,
          <<"Text", IF sp.text.k = "str" THEN sp.text.s ELSE "[]">> >>
       \o SpanBlocks(Tail(items))

\* the block the specification gives for an error record
FullBlock(msg) ==
  << <<"Error", FieldText(msg.message)>>,
     <<"Code", IF msg.code.k = "obj" THEN FieldText(msg.code.code) ELSE "None">> >>
  \o (IF msg.spans.k = "list" THEN SpanBlocks(msg.spans.items) ELSE <<>>)

\* C1: every scanned error record (spans a list of span objects) printed
\* exactly its full block: Error, Code ("None" without an error code), then a
\* File and a Text line per span, in span order.
C1_FullBlockPrinted ==
  \A i \in Scanned :
    (IsErrorRecord(lines[i]) /\ SpansWellFormed(lines[i].message))
      => OutputOf(i) = FullBlock(lines[i].message)

\* C2: every printed line comes from a scanned error record, an error record
\* has exactly one "Error:" line, and a record of another reason or level
\* printed nothing.
C2_OnlyErrorRecordsPrint ==
  /\ \A k \in DOMAIN out : src[k] \in Scanned /\ IsErrorRecord(lines[src[k]])
  /\ \A i \in Scanned :
       /\ ~IsErrorRecord(lines[i]) => OutputOf(i) = <<>>
       /\ IsErrorRecord(lines[i]) =>
            Cardinality({k \in DOMAIN out : src[k] = i /\ out[k][1] = "Error"}) = 1

C2_Witness ==
  /\ spc = "done"
  /\ \E i, j \in Scanned :
       /\ lines[i].k = "obj" /\ lines[i].message.k = "obj"
       /\ lines[i].message.level = S("warning")
       /\ IsErrorRecord(lines[j])
       /\ Len(OutputOf(j)) > 2

\* C3: scanning a line that is not valid JSON prints nothing, does not end
\* the script and moves on to the next line; a finished scan has read every
\* line.
C3_InvalidLineSkipped ==
  /\ [][(spc = "scan" /\ pos <= Len(lines) /\ pos # badAt /\ lines[pos].k = "invalid")
          => (out' = out /\ spc' = "scan" /\ exitS' = -1 /\ pos' = pos + 1)]_vars
  /\ [](spc = "done" => pos = Len(lines) + 1)

C3_Witness ==
  /\ spc = "done"
  /\ Len(lines) >= 2
  /\ lines[1].k = "invalid"
  /\ OutputOf(1) = <<>>
  /\ Len(OutputOf(2)) > 2

\* C4 (as stated): no run ends in a failure; the exit status is never
\* non-zero, whether the file is present, absent or undecodable.
C4_AlwaysExitZero ==
  /\ spc # "crashed"
  /\ exitS \in {-1, 0}

\* C4 (amended): when the file exists and all of it decodes as UTF-16, the
\* script never fails whatever the lines hold: it keeps a step to take until
\* it has scanned every line, and then exits with status 0.
C4_ExitZeroWhenReadable ==
  (fileExists /\ badAt = 0) =>
    /\ spc # "crashed"
    /\ exitS \in {-1, 0}
    /\ spc = "done" => (exitS = 0 /\ pos = Len(lines) + 1)
    /\ spc # "done" => ENABLED Next

C4_Witness ==
  /\ spc = "done" /\ exitS = 0
  /\ fileExists /\ badAt = 0
  /\ \E i, j \in Scanned : lines[i].k = "invalid" /\ lines[j].k = "list"

\* C10: the output is the concatenation of the lines' outputs in input
\* order, and a line whose handling raised printed nothing at all (no
\* partial block).
C10_NoPartialBlock ==
  /\ \A k \in DOMAIN out : \A m \in DOMAIN out : k <= m => src[k] <= src[m]
  /\ \A i \in Scanned : Raises(lines[i]) => OutputOf(i) = <<>>

-----------------------------------------------------------------------------
(* convert_icons.py as a state machine *)

\* The summarizer, not running
SumIdle ==
  /\ fileExists = FALSE
  /\ lines = <<>>
  /\ badAt = 0
  /\ pos = 1
  /\ out = <<>>
  /\ src = <<>>
  /\ spc = "open"
  /\ exitS = -1

\* The working directory before the run: ./png and ./ico may be missing,
\* directories or plain files; an existing ./png may hold an older
\* icon_<s>.png of another size and one path that cannot be written (a
\* directory or a read-only file of that name).
IconInit ==
  /\ pillow \in BOOLEAN
  /\ pngDir \in {"absent", "dir", "file"}
  /\ icoDir \in {"absent", "dir", "file"}
  /\ \E stale \in SUBSET {Sizes[1], Sizes[Len(Sizes)]} :
       /\ stale # {} => pngDir = "dir"
       /\ png = [s \in SizeSet |-> IF s \in stale THEN NewCanvas(Small) ELSE NoFile]
  /\ pngBlocked \in {0} \cup SizeSet
  /\ pngBlocked # 0 => (pngDir = "dir" /\ png[pngBlocked] = NoFile)
  /\ icoBlocked \in BOOLEAN
  /\ icoBlocked => icoDir = "dir"
  /\ faultAt \in {0, Small} \cup {IcoSizes[i] : i \in DOMAIN IcoSizes}
  /\ ico = {}
  /\ ipc = "start"
  /\ sizeIdx = 1
  /\ canvas = NoFile
  /\ written = {}
  /\ images = <<>>
  /\ iout = <<>>
  /\ exitI = -1
  /\ SumIdle

CheckPillowAlways == TRUE

\* lines 26-32
CheckPillow == pillow

\* lines 87-96: the dependency is missing
PillowMissing ==
  /\ ipc = "start"
  /\ ~CheckPillow
  /\ iout' = Append(iout, "hint")
  /\ exitI' = 1
  /\ ipc' = "done"
  /\ UNCHANGED <<pillow, pngDir, icoDir, png, pngBlocked, icoBlocked, faultAt,
                 ico, sizeIdx, canvas, written, images>>
  /\ UNCHANGED sumVars

\* lines 87, 98
PillowPresent ==
  /\ ipc = "start"
  /\ CheckPillow
  /\ ipc' = "mkdir"
  /\ UNCHANGED <<pillow, pngDir, icoDir, png, pngBlocked, icoBlocked, faultAt,
                 ico, sizeIdx, canvas, written, images, iout, exitI>>
  /\ UNCHANGED sumVars

\* lines 101-104: mkdir(exist_ok=True) of both directories
MakeDirs ==
  /\ ipc = "mkdir"
  /\ pngDir # "file" /\ icoDir # "file"
  /\ pngDir' = "dir"
  /\ icoDir' = "dir"
  /\ ipc' = "gen"
  /\ sizeIdx' = 1
  /\ UNCHANGED <<pillow, png, pngBlocked, icoBlocked, faultAt,
                 ico, canvas, written, images, iout, exitI>>
  /\ UNCHANGED sumVars

\* lines 103-104: a plain file of that name makes mkdir raise FileExistsError,
\* which nothing catches (png_dir is made first)
MakeDirsFail ==
  /\ ipc = "mkdir"
  /\ pngDir = "file" \/ icoDir = "file"
  /\ pngDir' = IF pngDir = "file" THEN "file" ELSE "dir"
  /\ ipc' = "crashed"
  /\ exitI' = 1
  /\ UNCHANGED <<pillow, icoDir, png, pngBlocked, icoBlocked, faultAt,
                 ico, sizeIdx, canvas, written, images, iout>>
  /\ UNCHANGED sumVars

\* lines 112-113, 36-53: the next size; a new image is created
NewImage ==
  /\ ipc = "gen"
  /\ sizeIdx <= Len(Sizes)
  /\ canvas' = NewCanvas(Sizes[sizeIdx])
  /\ ipc' = "draw"
  /\ UNCHANGED <<pillow, pngDir, icoDir, png, pngBlocked, icoBlocked, faultAt,
                 ico, sizeIdx, written, images, iout, exitI>>
  /\ UNCHANGED sumVars

\* lines 55-74: one iteration of the node loop
DrawNode ==
  /\ ipc = "draw"
  /\ Len(canvas.nodes) < NumNodes
  /\ canvas' = [canvas EXCEPT !.nodes = Append(@, Node(Sizes[sizeIdx], Len(canvas.nodes)))]
  /\ UNCHANGED <<pillow, pngDir, icoDir, png, pngBlocked, icoBlocked, faultAt,
                 ico, ipc, sizeIdx, written, images, iout, exitI>>
  /\ UNCHANGED sumVars

\* lines 76-77: img.save(output_path, 'PNG') and the report
SavePng ==
  /\ ipc = "draw"
  /\ Len(canvas.nodes) = NumNodes
  /\ Sizes[sizeIdx] # pngBlocked
  /\ png' = [png EXCEPT ![Sizes[sizeIdx]] = canvas]
  /\ written' = written \cup {Sizes[sizeIdx]}
  /\ iout' = Append(iout, "generated")
  /\ canvas' = NoFile
  /\ sizeIdx' = sizeIdx + 1
  /\ ipc' = "gen"
  /\ UNCHANGED <<pillow, pngDir, icoDir, pngBlocked, icoBlocked, faultAt,
                 ico, images, exitI>>
  /\ UNCHANGED sumVars

\* line 76: the path cannot be written; the OSError is raised outside any try
SavePngFail ==
  /\ ipc = "draw"
  /\ Len(canvas.nodes) = NumNodes
  /\ Sizes[sizeIdx] = pngBlocked
  /\ ipc' = "crashed"
  /\ exitI' = 1
  /\ UNCHANGED <<pillow, pngDir, icoDir, png, pngBlocked, icoBlocked, faultAt,
                 ico, sizeIdx, canvas, written, images, iout>>
  /\ UNCHANGED sumVars

\* lines 116-128: the bundle step starts; the 16x16 image is drawn
DrawSmall ==
  /\ ipc = "gen"
  /\ sizeIdx > Len(Sizes)
  /\ faultAt # Small
  /\ images' = <<[w |-> Small, h |-> Small, from |-> Small]>>
  /\ sizeIdx' = 1
  /\ ipc' = "load"
  /\ UNCHANGED <<pillow, pngDir, icoDir, png, pngBlocked, icoBlocked, faultAt,
                 ico, canvas, written, iout, exitI>>
  /\ UNCHANGED sumVars

\* (mutation) the except clause ends main with "return 1"
BundleFailedReturnsOne ==
  /\ iout' = Append(iout, "ico_error")
  /\ ipc' = "done"
  /\ exitI' = 1
  /\ UNCHANGED <<pillow, pngDir, icoDir, png, pngBlocked, icoBlocked, faultAt,
                 ico, sizeIdx, canvas, written, images>>
  /\ UNCHANGED sumVars

\* lines 147-149: the except clause, reached from the statement that raised
BundleFailed ==
  /\ iout' = Append(iout, "ico_error")
  /\ ipc' = "finish"
  /\ UNCHANGED <<pillow, pngDir, icoDir, png, pngBlocked, icoBlocked, faultAt,
                 ico, sizeIdx, canvas, written, images, exitI>>
  /\ UNCHANGED sumVars

\* lines 125-127 raise
DrawSmallFail ==
  /\ ipc = "gen"
  /\ sizeIdx > Len(Sizes)
  /\ faultAt = Small
  /\ BundleFailed

\* lines 131-135: one iteration of the loading loop
LoadPng ==
  /\ ipc = "load"
  /\ sizeIdx <= Len(IcoSizes)
  /\ ~(png[IcoSizes[sizeIdx]] # NoFile /\ faultAt = IcoSizes[sizeIdx])
  /\ images' = IF png[IcoSizes[sizeIdx]] # NoFile
               THEN Append(images, [w |-> png[IcoSizes[sizeIdx]].w,
                                    h |-> png[IcoSizes[sizeIdx]].h,
                                    from |-> IcoSizes[sizeIdx]])
               ELSE images
  /\ sizeIdx' = sizeIdx + 1
  /\ UNCHANGED <<pillow, pngDir, icoDir, png, pngBlocked, icoBlocked, faultAt,
                 ico, ipc, canvas, written, iout, exitI>>
  /\ UNCHANGED sumVars

\* line 134 raises
LoadPngFail ==
  /\ ipc = "load"
  /\ sizeIdx <= Len(IcoSizes)
  /\ png[IcoSizes[sizeIdx]] # NoFile
  /\ faultAt = IcoSizes[sizeIdx]
  /\ BundleFailed

\* lines 138-145
SaveIco ==
  /\ ipc = "load"
  /\ sizeIdx > Len(IcoSizes)
  /\ ~icoBlocked
  /\ ico' = IcoFrames(images)
  /\ iout' = Append(iout, "created")
  /\ ipc' = "finish"
  /\ UNCHANGED <<pillow, pngDir, icoDir, png, pngBlocked, icoBlocked, faultAt,
                 sizeIdx, canvas, written, images, exitI>>
  /\ UNCHANGED sumVars

\* lines 139-143 raise
SaveIcoFail ==
  /\ ipc = "load"
  /\ sizeIdx > Len(IcoSizes)
  /\ icoBlocked
  /\ BundleFailed

\* lines 151-165
Complete ==
  /\ ipc = "finish"
  /\ iout' = Append(iout, "complete")
  /\ exitI' = 0
  /\ ipc' = "done"
  /\ UNCHANGED <<pillow, pngDir, icoDir, png, pngBlocked, icoBlocked, faultAt,
                 ico, sizeIdx, canvas, written, images>>
  /\ UNCHANGED sumVars

IconNext ==
  \/ PillowMissing \/ PillowPresent \/ MakeDirs \/ MakeDirsFail
  \/ NewImage \/ DrawNode \/ SavePng \/ SavePngFail
  \/ DrawSmall \/ DrawSmallFail \/ LoadPng \/ LoadPngFail
  \/ SaveIco \/ SaveIcoFail \/ Complete

IconSpec == IconInit /\ [][IconNext]_vars

-----------------------------------------------------------------------------
(* Properties of the icon generator *)

Has(tag) == \E k \in DOMAIN iout : iout[k] = tag

PngSizes == {512, 256, 128, 64, 48, 32}

\* C5: without the imaging library main prints the hint, returns 1 and does
\* nothing else; no step of such a run changes ./png, ./ico or a file in them.
C5_NothingCreatedWithoutPillow ==
  /\ [][~pillow => (pngDir' = pngDir /\ icoDir' = icoDir /\ png' = png /\ ico' = ico)]_vars
  /\ []((~pillow /\ ipc # "start") => (ipc = "done" /\ exitI = 1 /\ iout = <<"hint">>))

C5_Witness ==
  /\ ~pillow
  /\ ipc = "done"
  /\ exitI = 1
  /\ pngDir = "absent"
  /\ icoDir = "absent"

\* C6: a PNG saved by the run has the width and height of its name from then
\* on, and when main has returned with the library available all six exist.
C6_PngSizes ==
  /\ \A s \in written : png[s].w = s /\ png[s].h = s
  /\ (pillow /\ ipc = "done") =>
       (written = PngSizes /\ \A s \in PngSizes : png[s].w = s /\ png[s].h = s)

C6_Witness ==
  /\ pillow
  /\ ipc = "done"
  /\ exitI = 0
  /\ written = PngSizes

InBundleStep == ipc \in {"load", "finish"} \/ (ipc = "gen" /\ sizeIdx > Len(Sizes))

\* the part of C7 about a failing bundle step
BundleFailureTolerated ==
  Has("ico_error") =>
    /\ ipc \in {"finish", "done"}
    /\ exitI \in {-1, 0}
    /\ \A s \in PngSizes : png[s].w = s /\ png[s].h = s
    /\ ipc = "done" => (exitI = 0 /\ iout[Len(iout)] = "complete")

\* C7 (as stated): a failing bundle step is caught, leaves the PNGs and lets
\* the run end with status 0; the status is 1 only without the imaging
\* library and 0 in every other run.
C7_ExitOneOnlyWithoutPillow ==
  /\ BundleFailureTolerated
  /\ exitI = 1 => ~pillow
  /\ (pillow /\ ipc \in {"done", "crashed"}) => exitI = 0

\* C7 (amended): a failing bundle step is caught, changes no PNG and lets the
\* run end with status 0; when main returns the status is 1 without the
\* imaging library and 0 with it; with the library the status is 1 only when
\* creating a directory or writing a PNG raised, before the bundle step.
C7_ExitStatus ==
  /\ []BundleFailureTolerated
  /\ [][InBundleStep => png' = png]_vars
  /\ [](ipc = "done" => exitI = (IF pillow THEN 0 ELSE 1))
  /\ []((pillow /\ exitI = 1) => (ipc = "crashed" /\ ~Has("ico_error") /\ ico = {}))

C7_Witness ==
  /\ Has("ico_error")
  /\ ipc = "done"
  /\ exitI = 0
  /\ written = PngSizes

Loaded == {images[j].from : j \in 2..Len(images)}

\* C8: a bundle that was written holds the 16x16 frame and, for every loaded
\* PNG of 32..256, a frame of that size made from that PNG.
C8_BundleHoldsLoadedPngs ==
  Has("created") =>
    /\ [w |-> 16, h |-> 16, from |-> 16] \in ico
    /\ \A s \in {32, 48, 64, 128, 256} :
         s \in Loaded => [w |-> s, h |-> s, from |-> s] \in ico

\* the images whose circles can be inspected: the one being drawn and the saved ones
Pictures == (IF ipc = "draw" THEN {canvas} ELSE {}) \cup {png[s] : s \in written}

Inside(pic, n) ==
  /\ 0 <= n.x - n.r /\ n.x + n.r <= pic.w - 1
  /\ 0 <= n.y - n.r /\ n.y + n.r <= pic.h - 1

\* circles k and k+1 share no pixel column
Apart(pic, k) ==
  pic.nodes[k].x + pic.nodes[k].r < pic.nodes[k + 1].x - pic.nodes[k + 1].r

\* neither of circles k and k+1 reaches the centre of the other
CentresFree(pic, k) ==
  /\ pic.nodes[k].x + pic.nodes[k].r < pic.nodes[k + 1].x
  /\ pic.nodes[k + 1].x - pic.nodes[k + 1].r > pic.nodes[k].x

Placement(pic) ==
  LET s == pic.w
      pad == s \div 8
      step == (s - 2 * pad) \div 6
  IN /\ Len(pic.nodes) <= 5
     /\ step > 0
     /\ \A k \in DOMAIN pic.nodes :
          /\ pic.nodes[k].x = pad + step * k
          /\ pic.nodes[k].y = s \div 2
          /\ pic.nodes[k].color = (CASE k = 3 -> "node3"
                                     [] k \in {2, 4} -> "node2"
                                     [] OTHER -> "node1")
          /\ Inside(pic, pic.nodes[k])
          /\ k # 3 => pic.nodes[k].r = pic.nodes[1].r
          /\ (k = 3) => pic.nodes[k].r > pic.nodes[1].r

\* C9 (as stated): the circles are placed, coloured and sized as described,
\* lie inside the canvas, and neighbouring circles do not overlap (touching
\* in one pixel column is allowed here).
C9_NodesDisjoint ==
  \A pic \in Pictures :
    /\ Placement(pic)
    /\ \A k \in 1..(Len(pic.nodes) - 1) :
         pic.nodes[k].x + pic.nodes[k].r <= pic.nodes[k + 1].x - pic.nodes[k + 1].r

\* C9 (amended): placement, colours, radii and containment as described, five
\* circles in every saved image; neighbouring circles are apart for the sizes
\* from 48 up, while at size 32 they are not (the outer circles touch the
\* inner ones, the middle circle overlaps both inner ones) though no circle
\* reaches a neighbour's centre.
C9_NodeGeometry ==
  /\ \A s \in written : Len(png[s].nodes) = 5
  /\ \A pic \in Pictures :
       /\ Placement(pic)
       /\ \A k \in 1..(Len(pic.nodes) - 1) :
            /\ CentresFree(pic, k)
            /\ pic.w >= 48 => Apart(pic, k)
            /\ pic.w = 32 => ~Apart(pic, k)

C9_Witness ==
  /\ canvas.w = 32
  /\ Len(canvas.nodes) = 5
  /\ written = {512, 256, 128, 64, 48}

====
